---- MODULE Spec2Model ----
(***************************************************************************)
(* Model of the CSS-like expression evaluators of <model-viewer>           *)
(* (styles/evaluators.ts): Evaluator, EnvEvaluator, CalcEvaluator,         *)
(* OperatorEvaluator and SphericalEvaluator.                               *)
(*                                                                         *)
(* An AST node and an evaluator are records with a "type" field.  An       *)
(* evaluator tree is a nested record: the code shares no evaluator between *)
(* two parents, so a tree of values is the object graph.  A thrown         *)
(* TypeError is the value THROWN, passed up through every caller.          *)
(*                                                                         *)
(* JavaScript numbers are modelled as exact rationals extended with        *)
(* +Infinity, -Infinity and NaN; rounding and the sign of zero are not     *)
(* modelled.                                                               *)
(***************************************************************************)
EXTENDS Integers, Sequences, FiniteSets, TLC

VARIABLES
    pc,         \* "new": nothing constructed; "built"; "threw": an exception escaped
    input,      \* the AST (or operand triple) handed to the constructor
    evaluator,  \* the constructed Evaluatable, with every node's $lastValue
    result,     \* what the last evaluate() call returned
    calls,      \* number of evaluate() calls made on the root so far
    env         \* window / document metrics read by env(window-scroll-y)

vars == <<pc, input, evaluator, result, calls, env>>

(***************************************************************************)
(* Bounds of the model.                                                    *)
(***************************************************************************)
MaxCalls == 2       \* evaluate() calls on one evaluator
MaxScroll == 1      \* window.pageYOffset ranges over 0..MaxScroll
MaxHeight == 1      \* every height metric ranges over 0..MaxHeight
MaxNum == 2         \* operand numbers range over -MaxNum..MaxNum
MaxOps == 2         \* operators in a well-formed calc term list
MaxTerms == 3       \* length of an arbitrary (possibly malformed) term list
MaxDepth == 2       \* nesting depth of calc()/env() calls

(***************************************************************************)
(* JavaScript numbers: [n, d] with d > 0 a reduced fraction; d = 0 is      *)
(* +Infinity (n = 1), -Infinity (n = -1) or NaN (n = 0).  UNDEFINED is the *)
(* value of a property the object does not have (d < 0).                   *)
(***************************************************************************)
Abs(i) == IF i < 0 THEN -i ELSE i

RECURSIVE GCD(_, _)
GCD(a, b) == IF b = 0 THEN a ELSE GCD(b, a % b)

Sign(i) == IF i > 0 THEN 1 ELSE IF i < 0 THEN -1 ELSE 0

NaN == [n |-> 0, d |-> 0]
Infinity(s) == [n |-> s, d |-> 0]
UNDEFINED == [n |-> 0, d |-> -1]

\* the fraction p/q, q # 0, reduced and with a positive denominator
Rat(p, q) ==
    LET g == GCD(Abs(p), Abs(q))
    IN [n |-> Sign(q) * (p \div g), d |-> Abs(q) \div g]

Num(i) == Rat(i, 1)

IsNaN(x) == x.d = 0 /\ x.n = 0
IsInfinite(x) == x.d = 0 /\ x.n # 0
IsFinite(x) == x.d > 0

\* ToNumber(undefined) is NaN
ToNumber(x) == IF x.d < 0 THEN NaN ELSE x

Neg(x) == [n |-> -x.n, d |-> x.d]

Add(x, y) ==
    LET a == ToNumber(x)
        b == ToNumber(y)
    IN IF IsNaN(a) \/ IsNaN(b) THEN NaN
       ELSE IF IsInfinite(a) /\ IsInfinite(b)
            THEN (IF a.n = b.n THEN a ELSE NaN)
       ELSE IF IsInfinite(a) THEN a
       ELSE IF IsInfinite(b) THEN b
       ELSE Rat(a.n * b.d + b.n * a.d, a.d * b.d)

Sub(x, y) == Add(x, Neg(ToNumber(y)))

Mul(x, y) ==
    LET a == ToNumber(x)
        b == ToNumber(y)
    IN IF IsNaN(a) \/ IsNaN(b) THEN NaN
       ELSE IF IsInfinite(a) \/ IsInfinite(b)
            THEN (IF a.n = 0 \/ b.n = 0 THEN NaN
                  ELSE Infinity(Sign(a.n) * Sign(b.n)))
       ELSE Rat(a.n * b.n, a.d * b.d)

Div(x, y) ==
    LET a == ToNumber(x)
        b == ToNumber(y)
    IN IF IsNaN(a) \/ IsNaN(b) THEN NaN
       ELSE IF IsInfinite(a)
            THEN (IF IsInfinite(b) THEN NaN
                  ELSE Infinity(Sign(a.n) * (IF b.n < 0 THEN -1 ELSE 1)))
       ELSE IF IsInfinite(b) THEN Num(0)
       ELSE IF b.n = 0
            THEN (IF a.n = 0 THEN NaN ELSE Infinity(Sign(a.n)))
       ELSE Rat(a.n * b.d, a.d * b.n)

\* x || 0 on a number: NaN and 0 are falsy, everything else is kept
OrZero(x) == IF IsNaN(x) \/ (IsFinite(x) /\ x.n = 0) THEN Num(0) ELSE x

(***************************************************************************)
(* AST nodes (parsers.ts) and the two fallback nodes.  A unit is one of    *)
(* "deg", "rad", "m", "cm", "mm" or "null"; "undefined" is the unit read   *)
(* from an object that has none.                                           *)
(***************************************************************************)
NULL == [type |-> "null"]
THROWN == [type |-> "throw"]

numberNode(number, unit) == [type |-> "number", number |-> number, unit |-> unit]
identNode(value) == [type |-> "ident", value |-> value]
operatorNode(value) == [type |-> "operator", value |-> value]
expressionNode(terms) == [type |-> "expression", terms |-> terms]
functionNode(name, arguments) ==
    [type |-> "function", name |-> identNode(name), arguments |-> arguments]

ZERO == numberNode(Num(0), "null")
AUTO == identNode("auto")

EvaluatorTypes ==
    {"EnvEvaluator", "CalcEvaluator", "OperatorEvaluator", "SphericalEvaluator"}

\* node instanceof Evaluator
IsEvaluator(node) == node.type \in EvaluatorTypes

\* x == null in JavaScript: null or undefined
Nullish == {"null", "undefined"}

\* node.number and node.unit, undefined on a node that is no NumberNode
NumberOf(node) == IF node.type = "number" THEN node.number ELSE UNDEFINED
UnitOf(node) == IF node.type = "number" THEN node.unit ELSE "undefined"

(***************************************************************************)
(* conversions.ts is not among the sources: normalizeUnit follows the      *)
(* specification (deg -> rad, cm and mm -> m, rad, m and unitless          *)
(* unchanged).  Math.PI is a fixed double; PI stands for it.               *)
(***************************************************************************)
PI == Rat(22, 7)

degreesToRadians(node) ==
    numberNode(Div(Mul(node.number, PI), Num(180)), "rad")

lengthToBaseMeters(node) ==
    numberNode(Mul(node.number, IF node.unit = "cm" THEN Rat(1, 100) ELSE Rat(1, 1000)), "m")

normalizeUnit(node) ==
    IF node.type # "number" THEN node
    ELSE IF node.unit = "deg" THEN degreesToRadians(node)
    ELSE IF node.unit \in {"cm", "mm"} THEN lengthToBaseMeters(node)
    ELSE node

(***************************************************************************)
(* The environment read by env(window-scroll-y).                           *)
(***************************************************************************)
HeightFields ==
    {"bodyScrollHeight", "bodyOffsetHeight", "clientHeight", "scrollHeight",
     "offsetHeight"}

Max(a, b) == IF a >= b THEN a ELSE b

\* Math.max over the five document heights
verticalScrollMax(e) ==
    Max(e.bodyScrollHeight,
        Max(e.bodyOffsetHeight,
            Max(e.clientHeight, Max(e.scrollHeight, e.offsetHeight))))

\* const scrollY = verticalScrollPosition / (verticalScrollMax - window.innerHeight) || 0
windowScrollY(e) ==
    OrZero(Div(Num(e.pageYOffset), Num(verticalScrollMax(e) - e.innerHeight)))

(***************************************************************************)
(* Construction.  Every evaluator carries $lastValue; evals counts the     *)
(* runs of its own [$evaluate]() (a history field, read by no operation).  *)
(***************************************************************************)
NewOperatorEvaluator(operator, left, right) ==
    [type |-> "OperatorEvaluator", operator |-> operator, left |-> left,
     right |-> right, lastValue |-> NULL, evals |-> 0]

NewEnvEvaluator(envFunction) ==
    LET args == envFunction.arguments
        ident == IF Len(args) > 0 /\ Len(args[1].terms) > 0
                 THEN args[1].terms[1] ELSE NULL
    IN [type |-> "EnvEvaluator",
        identNode |-> IF ident.type = "ident" THEN ident ELSE NULL,
        lastValue |-> NULL, evals |-> 0]

\* variant: a pattern that matches '*' alone
IsMultiplicationStarOnly(value) == value = "*"

\* IS_MULTIPLICATION_RE.test(value)
IsMultiplication(value) == value \in {"*", "/"}

RECURSIVE evaluatableFor(_)
RECURSIVE NewCalcEvaluator(_)
RECURSIVE MultiplicativePass(_, _)
RECURSIVE AdditivePass(_)

\* Evaluator.evaluatableFor: a node that is neither an Evaluator, a number nor
\* a function has no name, and reading name.value throws a TypeError
evaluatableFor(node) ==
    IF IsEvaluator(node) \/ node.type = "number" THEN node
    ELSE IF node.type # "function" THEN THROWN
    ELSE IF node.name.value = "calc" THEN NewCalcEvaluator(node)
    ELSE IF node.name.value = "env" THEN NewEnvEvaluator(node)
    ELSE ZERO

\* the first while loop: [status, stack, rest], status "ok", "return" or
\* "throw", rest what terms.shift() has left in the working array
MultiplicativePass(terms, secondOrderTerms) ==
    IF Len(terms) = 0
    THEN [status |-> "ok", stack |-> secondOrderTerms, rest |-> <<>>]
    ELSE
    LET term == Head(terms)
        n == Len(secondOrderTerms)
        previousTerm == secondOrderTerms[n]
    IN IF n > 0 /\ previousTerm.type = "operator"
                /\ IsMultiplication(previousTerm.value)
       THEN IF n = 1
            THEN [status |-> "return", stack |-> <<>>, rest |-> Tail(terms)]
            ELSE
            LET left == evaluatableFor(secondOrderTerms[n - 1])
                right == evaluatableFor(term)
            IN IF left.type = "throw" \/ right.type = "throw"
               THEN [status |-> "throw", stack |-> <<>>, rest |-> Tail(terms)]
               ELSE MultiplicativePass(Tail(terms),
                        Append(SubSeq(secondOrderTerms, 1, n - 2),
                               NewOperatorEvaluator(previousTerm, left, right)))
       ELSE
       LET pushed == IF term.type = "operator" THEN term ELSE evaluatableFor(term)
       IN IF pushed.type = "throw"
          THEN [status |-> "throw", stack |-> <<>>, rest |-> Tail(terms)]
          ELSE MultiplicativePass(Tail(terms), Append(secondOrderTerms, pushed))

\* the second while loop
AdditivePass(secondOrderTerms) ==
    IF Len(secondOrderTerms) <= 2 THEN [status |-> "ok", stack |-> secondOrderTerms]
    ELSE
    LET operator == secondOrderTerms[2]
    IN IF operator.type # "operator" THEN [status |-> "return", stack |-> <<>>]
       ELSE
       LET left == evaluatableFor(secondOrderTerms[1])
           right == evaluatableFor(secondOrderTerms[3])
       IN IF left.type = "throw" \/ right.type = "throw"
          THEN [status |-> "throw", stack |-> <<>>]
          ELSE AdditivePass(<<NewOperatorEvaluator(operator, left, right)>>
                            \o SubSeq(secondOrderTerms, 4, Len(secondOrderTerms)))

\* variant: the loop works on the caller's array itself
sliceSameArray(terms) == [items |-> terms, sameArray |-> TRUE]

\* calcFunction.arguments[0].terms.slice(): the same items in a new array
slice(terms) == [items |-> terms, sameArray |-> FALSE]

\* calcFunction.arguments[0].terms as the constructor leaves it
TermsAfterConstruction(calcFunction) ==
    LET terms == slice(calcFunction.arguments[1].terms)
    IN IF terms.sameArray THEN MultiplicativePass(terms.items, <<>>).rest
       ELSE calcFunction.arguments[1].terms

\* the function node as the CalcEvaluator constructor leaves it
CalcFunctionAfter(calcFunction) ==
    IF Len(calcFunction.arguments) # 1 THEN calcFunction
    ELSE [calcFunction EXCEPT
             !.arguments = <<expressionNode(TermsAfterConstruction(calcFunction))>>]

CalcEvaluatorOf(inner) ==
    [type |-> "CalcEvaluator", evaluator |-> inner, lastValue |-> NULL, evals |-> 0]

\* variant: the first entry left becomes the inner tree however many remain
NewCalcEvaluatorFirstEntry(calcFunction) ==
    IF Len(calcFunction.arguments) # 1 THEN CalcEvaluatorOf(NULL)
    ELSE
    LET first == MultiplicativePass(slice(calcFunction.arguments[1].terms).items,
                                    <<>>)
    IN IF first.status = "throw" THEN THROWN
       ELSE IF first.status = "return" THEN CalcEvaluatorOf(NULL)
       ELSE
       LET second == AdditivePass(first.stack)
       IN IF second.status = "throw" THEN THROWN
          ELSE IF second.status = "return" THEN CalcEvaluatorOf(NULL)
          ELSE IF Len(second.stack) >= 1 THEN CalcEvaluatorOf(second.stack[1])
          ELSE CalcEvaluatorOf(NULL)

NewCalcEvaluator(calcFunction) ==
    IF Len(calcFunction.arguments) # 1 THEN CalcEvaluatorOf(NULL)
    ELSE
    LET first == MultiplicativePass(slice(calcFunction.arguments[1].terms).items,
                                    <<>>)
    IN IF first.status = "throw" THEN THROWN
       ELSE IF first.status = "return" THEN CalcEvaluatorOf(NULL)
       ELSE
       LET second == AdditivePass(first.stack)
       IN IF second.status = "throw" THEN THROWN
          ELSE IF second.status = "return" THEN CalcEvaluatorOf(NULL)
          ELSE IF Len(second.stack) = 1 THEN CalcEvaluatorOf(second.stack[1])
          ELSE CalcEvaluatorOf(NULL)

\* variant: the last term present is taken for missing
TermOrOffByOne(terms, i, default) == IF Len(terms) > i THEN terms[i] ELSE default

\* the [thetaTerm, phiTerm, radiusTerm] destructuring with its defaults
TermOr(terms, i, default) == IF Len(terms) >= i THEN terms[i] ELSE default

NewSphericalEvaluator(expressions) ==
    LET terms == IF Len(expressions) > 0 THEN expressions[1].terms ELSE <<>>
        thetaTerm == TermOr(terms, 1, ZERO)
        phiTerm == TermOr(terms, 2, ZERO)
        radiusTerm == TermOr(terms, 3, AUTO)
        theta == evaluatableFor(thetaTerm)
        phi == evaluatableFor(phiTerm)
        radius == IF radiusTerm.type = "ident" THEN radiusTerm
                  ELSE evaluatableFor(radiusTerm)
    IN IF theta.type = "throw" \/ phi.type = "throw" \/ radius.type = "throw"
       THEN THROWN
       ELSE [type |-> "SphericalEvaluator", theta |-> theta, phi |-> phi,
             radius |-> radius, lastValue |-> NULL, evals |-> 0]

(***************************************************************************)
(* isConstant and evaluate().  An evaluation returns [value, self]: the    *)
(* value and the evaluator with the $lastValue fields the call has set.    *)
(***************************************************************************)
RECURSIVE isConstant(_)
RECURSIVE EvaluatorIsConstant(_)

\* variant: an OperatorEvaluator that asks its left operand alone
isConstantLeftOnly(this) ==
    IF this.type = "EnvEvaluator" THEN FALSE
    ELSE IF this.type = "CalcEvaluator"
         THEN this.evaluator.type = "null" \/ EvaluatorIsConstant(this.evaluator)
    ELSE IF this.type = "OperatorEvaluator"
         THEN EvaluatorIsConstant(this.left)
    ELSE EvaluatorIsConstant(this.theta) /\ EvaluatorIsConstant(this.phi)
         /\ EvaluatorIsConstant(this.radius)

\* static Evaluator.isConstant
EvaluatorIsConstant(evaluatable) ==
    IF IsEvaluator(evaluatable) THEN isConstant(evaluatable) ELSE TRUE

\* the isConstant getter of each class
isConstant(this) ==
    IF this.type = "EnvEvaluator" THEN FALSE
    ELSE IF this.type = "CalcEvaluator"
         THEN this.evaluator.type = "null" \/ EvaluatorIsConstant(this.evaluator)
    ELSE IF this.type = "OperatorEvaluator"
         THEN EvaluatorIsConstant(this.left) /\ EvaluatorIsConstant(this.right)
    ELSE EvaluatorIsConstant(this.theta) /\ EvaluatorIsConstant(this.phi)
         /\ EvaluatorIsConstant(this.radius)

\* variant: every identifier names the scroll position
EnvEvaluateAnyIdent(this, e) ==
    IF this.identNode.type # "null"
    THEN numberNode(windowScrollY(e), "null")
    ELSE ZERO

\* EnvEvaluator[$evaluate]
EnvEvaluate(this, e) ==
    IF this.identNode.type # "null" /\ this.identNode.value = "window-scroll-y"
    THEN numberNode(windowScrollY(e), "null")
    ELSE ZERO

\* variant: no check for mismatched units, and NaN for an unknown operator
OperatorResultUnchecked(operator, leftNode, rightNode) ==
    LET leftValue == NumberOf(leftNode)
        leftUnit == UnitOf(leftNode)
        rightValue == NumberOf(rightNode)
        rightUnit == UnitOf(rightNode)
        unit == IF leftUnit \in Nullish THEN rightUnit ELSE leftUnit
    IN IF operator.value = "+" THEN numberNode(Add(leftValue, rightValue), unit)
       ELSE IF operator.value = "-" THEN numberNode(Sub(leftValue, rightValue), unit)
       ELSE IF operator.value = "/" THEN numberNode(Div(leftValue, rightValue), unit)
       ELSE IF operator.value = "*" THEN numberNode(Mul(leftValue, rightValue), unit)
       ELSE numberNode(NaN, unit)

\* variant: the result takes the right operand's unit
OperatorResultRightUnit(operator, leftNode, rightNode) ==
    LET leftValue == NumberOf(leftNode)
        leftUnit == UnitOf(leftNode)
        rightValue == NumberOf(rightNode)
        rightUnit == UnitOf(rightNode)
        unit == rightUnit
    IN IF rightUnit \notin Nullish /\ leftUnit \notin Nullish /\ rightUnit # leftUnit
       THEN ZERO
       ELSE IF operator.value = "+" THEN numberNode(Add(leftValue, rightValue), unit)
       ELSE IF operator.value = "-" THEN numberNode(Sub(leftValue, rightValue), unit)
       ELSE IF operator.value = "/" THEN numberNode(Div(leftValue, rightValue), unit)
       ELSE IF operator.value = "*" THEN numberNode(Mul(leftValue, rightValue), unit)
       ELSE ZERO

\* OperatorEvaluator[$evaluate], from the two normalized operand nodes on
OperatorResult(operator, leftNode, rightNode) ==
    LET leftValue == NumberOf(leftNode)
        leftUnit == UnitOf(leftNode)
        rightValue == NumberOf(rightNode)
        rightUnit == UnitOf(rightNode)
        unit == IF leftUnit \in Nullish THEN rightUnit ELSE leftUnit
    IN IF rightUnit \notin Nullish /\ leftUnit \notin Nullish /\ rightUnit # leftUnit
       THEN ZERO
       ELSE IF operator.value = "+" THEN numberNode(Add(leftValue, rightValue), unit)
       ELSE IF operator.value = "-" THEN numberNode(Sub(leftValue, rightValue), unit)
       ELSE IF operator.value = "/" THEN numberNode(Div(leftValue, rightValue), unit)
       ELSE IF operator.value = "*" THEN numberNode(Mul(leftValue, rightValue), unit)
       ELSE ZERO

\* variant: the radius goes through normalizeUnit whatever its type
SphericalResultNormalizedRadius(thetaNode, phiNode, radiusNode) ==
    [type |-> "spherical",
     theta |-> NumberOf(normalizeUnit(thetaNode)),
     phi |-> NumberOf(normalizeUnit(phiNode)),
     radius |-> NumberOf(normalizeUnit(radiusNode))]

\* SphericalEvaluator[$evaluate], from the three evaluated operands on
SphericalResult(thetaNode, phiNode, radiusNode) ==
    [type |-> "spherical",
     theta |-> NumberOf(normalizeUnit(thetaNode)),
     phi |-> NumberOf(normalizeUnit(phiNode)),
     radius |-> IF radiusNode.type = "ident" THEN [string |-> radiusNode.value]
                ELSE NumberOf(normalizeUnit(radiusNode))]

\* variant: a cached value is returned whether the evaluator is constant or not
MustEvaluateOnce(this) == this.lastValue.type = "null"

\* variant: the cache is never consulted
MustEvaluateAlways(this) == TRUE

\* whether evaluate() runs [$evaluate]() (line 114)
MustEvaluate(this) == ~isConstant(this) \/ this.lastValue.type = "null"

RECURSIVE evaluate(_, _)
RECURSIVE EvaluatorEvaluate(_, _)
RECURSIVE EvaluateStep(_, _)

\* static Evaluator.evaluate
EvaluatorEvaluate(evaluatable, e) ==
    IF IsEvaluator(evaluatable) THEN evaluate(evaluatable, e)
    ELSE [value |-> evaluatable, self |-> evaluatable]

\* this[$evaluate]() of each class
EvaluateStep(this, e) ==
    IF this.type = "EnvEvaluator"
    THEN [value |-> EnvEvaluate(this, e), self |-> this]
    ELSE IF this.type = "CalcEvaluator"
    THEN IF this.evaluator.type # "null"
         THEN LET inner == EvaluatorEvaluate(this.evaluator, e)
              IN [value |-> inner.value,
                  self |-> [this EXCEPT !.evaluator = inner.self]]
         ELSE [value |-> ZERO, self |-> this]
    ELSE IF this.type = "OperatorEvaluator"
    THEN LET left == EvaluatorEvaluate(this.left, e)
             right == EvaluatorEvaluate(this.right, e)
         IN [value |-> OperatorResult(this.operator, normalizeUnit(left.value),
                                      normalizeUnit(right.value)),
             self |-> [this EXCEPT !.left = left.self, !.right = right.self]]
    ELSE LET radius == EvaluatorEvaluate(this.radius, e)
             theta == EvaluatorEvaluate(this.theta, e)
             phi == EvaluatorEvaluate(this.phi, e)
         IN [value |-> SphericalResult(theta.value, phi.value, radius.value),
             self |-> [this EXCEPT !.radius = radius.self, !.theta = theta.self,
                                   !.phi = phi.self]]

\* Evaluator.evaluate()
evaluate(this, e) ==
    IF MustEvaluate(this)
    THEN LET step == EvaluateStep(this, e)
         IN [value |-> step.value,
             self |-> [step.self EXCEPT !.lastValue = step.value,
                                        !.evals = @ + 1]]
    ELSE [value |-> this.lastValue, self |-> this]

(***************************************************************************)
(* Inputs.                                                                 *)
(***************************************************************************)
Units == {"null", "deg", "rad", "m", "cm", "mm"}
Operators == {"+", "-", "*", "/"}

SeqsUpTo(S, n) == UNION {[1..k -> S] : k \in 0..n}

one == numberNode(Num(1), "null")
two == numberNode(Num(2), "null")

calc(terms) == functionNode("calc", <<expressionNode(terms)>>)
envCall(terms) == functionNode("env", <<expressionNode(terms)>>)
windowScrollYCall == envCall(<<identNode("window-scroll-y")>>)

\* n0 op1 n1 ... opk nk from the k + 1 numbers ns and the k operators ops
Interleave(ns, ops) ==
    [i \in 1..(2 * Len(ns) - 1) |->
        IF i % 2 = 1 THEN ns[(i + 1) \div 2] ELSE operatorNode(ops[i \div 2])]

\* the term list of the test 'evaluates complex algebraic expressions'
ComplexAlgebra ==
    Interleave(<<one, two, numberNode(Rat(5, 2), "null"),
                 numberNode(Num(-2), "null"), numberNode(Num(-1), "null")>>,
               <<"+", "*", "-", "/">>)

ArithNumbers == {numberNode(Num(v), "null") : v \in {-2, 0, 1, 2}}

\* well-formed term lists of unitless numbers, of at most maxOps operators
WellFormedTerms(maxOps) ==
    UNION {{Interleave(ns, ops) : ns \in [1..(k + 1) -> ArithNumbers],
                                  ops \in [1..k -> Operators]} : k \in 0..maxOps}
    \cup {ComplexAlgebra}

\* calc()/env() calls nested to depth d
RECURSIVE Nested(_)
Nested(d) ==
    IF d = 0 THEN {}
    ELSE {windowScrollYCall, functionNode("env", <<>>), functionNode("calc", <<>>),
          functionNode("foo", <<expressionNode(<<one>>)>>)}
         \cup {calc(<<x>>) : x \in {one} \cup Nested(d - 1)}
         \cup {calc(<<one, operatorNode("+"), x>>) : x \in Nested(d - 1)}

\* terms of any kind, in any order
FlatAtoms ==
    {one, numberNode(Num(2), "m"), operatorNode("+"), operatorNode("*"), AUTO}
    \cup Nested(1)

NestedTerms(d) ==
    LET N == Nested(d)
    IN {<<x>> : x \in N}
       \cup {<<x, operatorNode(o), y>> : x \in {one} \cup N, y \in N, o \in {"+", "*"}}
       \cup {<<x, y>> : x \in {one}, y \in N}

CalcInputs(maxTerms, d) ==
    {calc(terms) : terms \in SeqsUpTo(FlatAtoms, maxTerms) \cup NestedTerms(d)}
    \cup {functionNode("calc", <<>>), functionNode("env", <<>>),
          functionNode("calc", <<expressionNode(<<one>>), expressionNode(<<one>>)>>),
          functionNode("calc", <<expressionNode(<<windowScrollYCall>>),
                                 expressionNode(<<one>>)>>)}

EnvInputs ==
    {functionNode("env", <<>>), envCall(<<>>), envCall(<<one>>),
     envCall(<<operatorNode("+")>>), envCall(<<calc(<<one>>)>>),
     windowScrollYCall, envCall(<<AUTO>>), envCall(<<identNode("window-scroll-x")>>),
     envCall(<<one, identNode("window-scroll-y")>>),
     functionNode("env", <<expressionNode(<<>>),
                           expressionNode(<<identNode("window-scroll-y")>>)>>),
     functionNode("env", <<expressionNode(<<identNode("window-scroll-y")>>),
                           expressionNode(<<one>>)>>)}

\* operands of an OperatorEvaluator: numbers of every unit and three evaluators
OperandNumbers(m) ==
    {numberNode(Num(v), u) : v \in -m..m, u \in Units}
    \cup {numberNode(Num(1000), "mm")}
OperandEvaluators ==
    {evaluatableFor(fn) :
        fn \in {windowScrollYCall, calc(<<numberNode(Num(100), "cm")>>),
                calc(<<operatorNode("+")>>)}}
OperatorInputs(m) ==
    [type : {"operands"}, operator : {operatorNode(o) : o \in Operators \cup {"$"}},
     left : OperandNumbers(m) \cup OperandEvaluators,
     right : OperandNumbers(m) \cup OperandEvaluators]

SphericalTerms ==
    {numberNode(Num(v), u) : v \in {1, 100, 180}, u \in Units}
    \cup {AUTO, identNode("other"), windowScrollYCall,
          calc(<<numberNode(Num(1), "m"), operatorNode("+"), one>>)}
SphericalInputs(maxTerms) ==
    {<<>>}
    \cup {<<expressionNode(terms)>> : terms \in SeqsUpTo(SphericalTerms, maxTerms)}
    \cup {<<expressionNode(<<one, one, one, one>>)>>,
          <<expressionNode(<<>>), expressionNode(<<one, one, one>>)>>,
          <<expressionNode(<<one, two>>), expressionNode(<<two, one, one>>)>>}

\* the inputs of the full system: few, so that every interleaving of
\* evaluate() calls and environment changes is explored
SmallOperands == {one, windowScrollYCall, calc(<<one, operatorNode("+"), one>>)}
SmallCalcInputs ==
    {calc(<<x>>) : x \in SmallOperands}
    \cup {calc(<<x, operatorNode("+"), y>>) :
            x \in SmallOperands, y \in SmallOperands}
    \cup {calc(<<calc(<<calc(<<one>>), operatorNode("*"), windowScrollYCall>>)>>)}
SmallEnvInputs == {functionNode("env", <<>>), windowScrollYCall, envCall(<<AUTO>>)}
SmallOperatorInputs ==
    [type : {"operands"}, operator : {operatorNode("-")},
     left : {evaluatableFor(x) : x \in SmallOperands \ {one}},
     right : {evaluatableFor(x) : x \in SmallOperands \ {one}}]
SmallSphericalInputs ==
    {<<>>,
     <<expressionNode(<<numberNode(Num(1), "rad"), numberNode(Num(180), "deg"),
                        numberNode(Num(100), "cm")>>)>>,
     <<expressionNode(<<windowScrollYCall, calc(<<two>>), AUTO>>)>>,
     <<expressionNode(<<one, one, calc(<<one, operatorNode("+"), windowScrollYCall>>)>>)>>}
SmallTerms == SmallOperands \cup {AUTO, operatorNode("+"), functionNode("foo", <<>>)}

(***************************************************************************)
(* The state machine.                                                      *)
(***************************************************************************)
InitEnv ==
    [pageYOffset |-> 0, innerHeight |-> 0, bodyScrollHeight |-> 0,
     bodyOffsetHeight |-> 0, clientHeight |-> 0, scrollHeight |-> 0,
     offsetHeight |-> 0]

Init ==
    /\ pc = "new"
    /\ input = NULL
    /\ evaluator = NULL
    /\ result = NULL
    /\ calls = 0
    /\ env = InitEnv

\* the caller's argument after the call: the CalcEvaluator constructor, called
\* directly or by evaluatableFor for a calc() node, is the one that works on
\* an array taken from its argument
ArgumentAfter(kind, arg) ==
    IF kind = "CalcEvaluator" THEN CalcFunctionAfter(arg)
    ELSE IF kind = "evaluatableFor" /\ arg.type = "function"
            /\ arg.name.value = "calc"
         THEN CalcFunctionAfter(arg)
    ELSE arg

\* a constructor (or evaluatableFor) called with arg returns built or throws;
\* one construction per behaviour, guarded by pc = "new" in the callers
Construct(kind, arg, built) ==
    /\ input' = [kind |-> kind, arg |-> arg, after |-> ArgumentAfter(kind, arg)]
    /\ evaluator' = IF built.type = "throw" THEN NULL ELSE built
    /\ pc' = IF built.type = "throw" THEN "threw" ELSE "built"
    /\ UNCHANGED <<result, calls, env>>

ConstructCalcFrom(S) ==
    /\ pc = "new"
    /\ \E fn \in S : Construct("CalcEvaluator", fn, NewCalcEvaluator(fn))
ConstructEnvFrom(S) ==
    /\ pc = "new"
    /\ \E fn \in S : Construct("EnvEvaluator", fn, NewEnvEvaluator(fn))
ConstructOperatorFrom(S) ==
    /\ pc = "new"
    /\ \E o \in S : Construct("OperatorEvaluator", o,
                              NewOperatorEvaluator(o.operator, o.left, o.right))
ConstructSphericalFrom(S) ==
    /\ pc = "new"
    /\ \E exprs \in S : Construct("SphericalEvaluator",
                                  [type |-> "expressions", list |-> exprs],
                                  NewSphericalEvaluator(exprs))
EvaluatableForFrom(S) ==
    /\ pc = "new"
    /\ \E term \in S : Construct("evaluatableFor", term, evaluatableFor(term))

\* evaluate() on what was constructed
Evaluate ==
    /\ pc = "built"
    /\ calls < MaxCalls
    /\ LET r == EvaluatorEvaluate(evaluator, env)
       IN /\ evaluator' = r.self
          /\ result' = r.value
    /\ calls' = calls + 1
    /\ UNCHANGED <<pc, input, env>>

\* the user scrolls the page
Scroll ==
    /\ \E y \in 0..MaxScroll : env' = [env EXCEPT !.pageYOffset = y]
    /\ env' # env
    /\ UNCHANGED <<pc, input, evaluator, result, calls>>

\* the window is resized
ResizeWindow ==
    /\ \E h \in 0..MaxHeight : env' = [env EXCEPT !.innerHeight = h]
    /\ env' # env
    /\ UNCHANGED <<pc, input, evaluator, result, calls>>

\* the document is laid out anew: one height metric is h, the others 0
Reflow ==
    /\ \E f \in HeightFields, h \in 0..MaxHeight :
          env' = [g \in HeightFields |-> IF g = f THEN h ELSE 0]
                    @@ [pageYOffset |-> env.pageYOffset,
                        innerHeight |-> env.innerHeight]
    /\ env' # env
    /\ UNCHANGED <<pc, input, evaluator, result, calls>>

ConstructCalc == ConstructCalcFrom(SmallCalcInputs)
ConstructEnv == ConstructEnvFrom(SmallEnvInputs)
ConstructOperator == ConstructOperatorFrom(SmallOperatorInputs)
ConstructSpherical == ConstructSphericalFrom(SmallSphericalInputs)
EvaluatableFor == EvaluatableForFrom(SmallTerms)

Next ==
    \/ ConstructCalc
    \/ ConstructEnv
    \/ ConstructOperator
    \/ ConstructSpherical
    \/ EvaluatableFor
    \/ Evaluate
    \/ Scroll
    \/ ResizeWindow
    \/ Reflow

Spec == Init /\ [][Next]_vars

\* calc() alone, over term lists of every shape
ConstructAnyCalc == ConstructCalcFrom(CalcInputs(MaxTerms, MaxDepth))
NextCalc == ConstructAnyCalc \/ Evaluate
SpecCalc == Init /\ [][NextCalc]_vars

\* calc() over well-formed arithmetic
ConstructArith == ConstructCalcFrom({calc(terms) : terms \in WellFormedTerms(MaxOps)})
NextArith == ConstructArith \/ Evaluate
SpecArith == Init /\ [][NextArith]_vars

\* one OperatorEvaluator over operands of every unit
ConstructAnyOperator == ConstructOperatorFrom(OperatorInputs(MaxNum))
NextOperator == ConstructAnyOperator \/ Evaluate
SpecOperator == Init /\ [][NextOperator]_vars

\* one EnvEvaluator in a changing environment
ConstructAnyEnv == ConstructEnvFrom(EnvInputs)
NextEnv == ConstructAnyEnv \/ Evaluate \/ Scroll \/ ResizeWindow \/ Reflow
SpecEnv == Init /\ [][NextEnv]_vars

\* one SphericalEvaluator
ConstructAnySpherical == ConstructSphericalFrom(SphericalInputs(3))
NextSpherical == ConstructAnySpherical \/ Evaluate
SpecSpherical == Init /\ [][NextSpherical]_vars

(***************************************************************************)
(* Helpers of the properties.                                              *)
(***************************************************************************)
\* the evaluators of a tree, by path
ChildFields(x) ==
    IF x.type = "CalcEvaluator" THEN {"evaluator"}
    ELSE IF x.type = "OperatorEvaluator" THEN {"left", "right"}
    ELSE IF x.type = "SphericalEvaluator" THEN {"theta", "phi", "radius"}
    ELSE {}

RECURSIVE Paths(_)
Paths(x) ==
    IF ~IsEvaluator(x) THEN {}
    ELSE {<<>>} \cup UNION {{<<f>> \o p : p \in Paths(x[f])} : f \in ChildFields(x)}

RECURSIVE At(_, _)
At(x, p) == IF p = <<>> THEN x ELSE At(x[Head(p)], Tail(p))

Built(kind) == pc = "built" /\ input.kind = kind

InputTerms == input.arg.arguments[1].terms

\* a step that leaves every constant evaluator of the tree evaluated at most
\* once, its cached value untouched once set, and the value returned by a
\* constant root the same as before
C2_Step ==
    pc' = "built" =>
        /\ \A p \in Paths(evaluator') :
              LET after == At(evaluator', p)
              IN isConstant(after) =>
                    /\ after.evals <= 1
                    /\ (after.evals = 1 <=> after.lastValue.type # "null")
                    /\ (pc = "built" /\ At(evaluator, p).evals = 1) =>
                          /\ after.evals = 1
                          /\ after.lastValue = At(evaluator, p).lastValue
        /\ (IsEvaluator(evaluator') /\ isConstant(evaluator') /\ calls' >= 1) =>
              /\ evaluator'.evals = 1
              /\ result' = evaluator'.lastValue
              /\ calls >= 1 => result' = result

\* the last position of terms holding an operator of S, or 0
LastOperator(terms, S) ==
    LET at == {i \in 1..Len(terms) :
                  terms[i].type = "operator" /\ terms[i].value \in S}
    IN IF at = {} THEN 0 ELSE CHOOSE i \in at : \A j \in at : j <= i

\* the grammar  sum ::= sum (+|-) product | product,
\*              product ::= product (*|/) number | number
RECURSIVE ProductValue(_)
ProductValue(terms) ==
    LET j == LastOperator(terms, {"*", "/"})
    IN IF j = 0 THEN terms[1].number
       ELSE IF terms[j].value = "*"
            THEN Mul(ProductValue(SubSeq(terms, 1, j - 1)), terms[j + 1].number)
            ELSE Div(ProductValue(SubSeq(terms, 1, j - 1)), terms[j + 1].number)

RECURSIVE SumValue(_)
SumValue(terms) ==
    LET j == LastOperator(terms, {"+", "-"})
    IN IF j = 0 THEN ProductValue(terms)
       ELSE IF terms[j].value = "+"
            THEN Add(SumValue(SubSeq(terms, 1, j - 1)),
                     ProductValue(SubSeq(terms, j + 1, Len(terms))))
            ELSE Sub(SumValue(SubSeq(terms, 1, j - 1)),
                     ProductValue(SubSeq(terms, j + 1, Len(terms))))

\* n0 op1 n1 ... opk nk: unitless numbers separated by operators of + - * /
IsArithmetic(terms) ==
    /\ Len(terms) % 2 = 1
    /\ \A i \in 1..Len(terms) :
          IF i % 2 = 0
          THEN terms[i].type = "operator" /\ terms[i].value \in Operators
          ELSE terms[i].type = "number" /\ terms[i].unit = "null"

\* an env() call among the terms of fn, directly or inside nested calc() calls
RECURSIVE ContainsEnv(_)
ContainsEnv(fn) ==
    \E a \in 1..Len(fn.arguments) : \E i \in 1..Len(fn.arguments[a].terms) :
        LET t == fn.arguments[a].terms[i]
        IN t.type = "function"
           /\ (t.name.value = "env" \/ (t.name.value = "calc" /\ ContainsEnv(t)))

\* the terms of fn are numbers, operators and calc() calls of such terms
RECURSIVE OnlyConstantTerms(_)
OnlyConstantTerms(fn) ==
    \A a \in 1..Len(fn.arguments) : \A i \in 1..Len(fn.arguments[a].terms) :
        LET t == fn.arguments[a].terms[i]
        IN \/ t.type \in {"number", "operator"}
           \/ (t.type = "function" /\ t.name.value = "calc" /\ OnlyConstantTerms(t))

\* one argument, operands separated by single operators, each operand a
\* number, an env() call or a well-formed calc() call
RECURSIVE WellFormedCalc(_)
WellFormedCalc(fn) ==
    /\ Len(fn.arguments) = 1
    /\ LET terms == fn.arguments[1].terms
       IN /\ Len(terms) % 2 = 1
          /\ \A i \in 1..Len(terms) :
                LET t == terms[i]
                IN IF i % 2 = 0 THEN t.type = "operator"
                   ELSE \/ t.type = "number"
                        \/ /\ t.type = "function"
                           /\ \/ t.name.value = "env"
                              \/ (t.name.value = "calc" /\ WellFormedCalc(t))

\* what an operand evaluated to in the last call
OperandValue(x) == IF IsEvaluator(x) THEN x.lastValue ELSE x

\* a node in the base unit of its family
InBaseUnit(node) ==
    IF node.type # "number" THEN node
    ELSE IF node.unit = "deg"
         THEN numberNode(Div(Mul(node.number, PI), Num(180)), "rad")
    ELSE IF node.unit = "cm" THEN numberNode(Div(node.number, Num(100)), "m")
    ELSE IF node.unit = "mm" THEN numberNode(Div(node.number, Num(1000)), "m")
    ELSE node

LeftNode == InBaseUnit(OperandValue(evaluator.left))
RightNode == InBaseUnit(OperandValue(evaluator.right))

UnitsConflict ==
    /\ UnitOf(LeftNode) \notin Nullish
    /\ UnitOf(RightNode) \notin Nullish
    /\ UnitOf(LeftNode) # UnitOf(RightNode)

Apply(symbol, a, b) ==
    IF symbol = "+" THEN Add(a, b)
    ELSE IF symbol = "-" THEN Sub(a, b)
    ELSE IF symbol = "*" THEN Mul(a, b)
    ELSE Div(a, b)

\* the first term of the first argument of fn is the identifier window-scroll-y
NamesWindowScrollY(fn) ==
    /\ Len(fn.arguments) > 0
    /\ Len(fn.arguments[1].terms) > 0
    /\ fn.arguments[1].terms[1].type = "ident"
    /\ fn.arguments[1].terms[1].value = "window-scroll-y"

\* an evaluate() step of env(window-scroll-y) that returns the scroll
\* fraction, and 0 when the divisor is 0
C9_Step ==
    (Built("EnvEvaluator") /\ NamesWindowScrollY(input.arg) /\ calls' = calls + 1)
        => LET divisor == verticalScrollMax(env) - env.innerHeight
           IN result' = numberNode(IF divisor = 0 THEN Num(0)
                                   ELSE Rat(env.pageYOffset, divisor), "null")

SphericalTermsOf(expressions) ==
    IF Len(expressions) > 0 THEN expressions[1].terms ELSE <<>>

AngleOf(terms, i) ==
    IF Len(terms) >= i THEN InBaseUnit(terms[i]).number ELSE Num(0)

RadiusOf(terms) ==
    IF Len(terms) < 3 THEN [string |-> "auto"]
    ELSE IF terms[3].type = "ident" THEN [string |-> terms[3].value]
    ELSE InBaseUnit(terms[3]).number

(***************************************************************************)
(* Properties.                                                             *)
(***************************************************************************)

\* C1: evaluatableFor, the constructors and every later evaluate() complete
\* without raising an exception, and evaluatableFor returns the zero sentinel
\* for an input that is not a number, an Evaluator or a calc()/env() call.
C1_NoException ==
    /\ pc # "threw"
    /\ (pc = "built" /\ input.kind = "evaluatableFor"
           /\ ~IsEvaluator(input.arg) /\ input.arg.type # "number"
           /\ ~(input.arg.type = "function"
                   /\ input.arg.name.value \in {"calc", "env"}))
       => evaluator = ZERO

\* C2: over any sequence of evaluate() calls and environment changes, the
\* evaluation step of a constant evaluator, at any depth of the tree, runs at
\* most once, and exactly once when an evaluate() has reached it; its cached
\* value never changes afterwards, and every evaluate() on a constant root
\* returns what the first call returned.
C2_ConstantEvaluatedOnce == [][C2_Step]_vars

\* a constant evaluator below a non-constant root, after two calls, in an
\* environment that has changed
C2_Witness ==
    /\ pc = "built"
    /\ calls >= 2
    /\ env # InitEnv
    /\ IsEvaluator(evaluator) /\ ~isConstant(evaluator)
    /\ \E p \in Paths(evaluator) :
          p # <<>> /\ isConstant(At(evaluator, p)) /\ At(evaluator, p).evals = 1

\* C3: a well-formed calc term list n0 op1 n1 ... opk nk of unitless numbers
\* evaluates to (v, null), v the value of the expression under standard
\* precedence: * and / bind tighter than + and -, and operators of equal
\* precedence associate to the left.
C3_Precedence ==
    (Built("CalcEvaluator") /\ calls >= 1 /\ IsArithmetic(InputTerms))
        => result = numberNode(SumValue(InputTerms), "null")

\* 1 + 2*2.5 - -2/-1 has been evaluated, to 4
C3_Witness ==
    /\ Built("CalcEvaluator") /\ calls >= 1
    /\ InputTerms = ComplexAlgebra
    /\ result = numberNode(Num(4), "null")

C5_ReturnsNumberNode ==
    (pc = "built" /\ calls >= 1
        /\ evaluator.type \in {"CalcEvaluator", "OperatorEvaluator", "EnvEvaluator"})
        => /\ result.type = "number"
           /\ result.unit \in Units
           /\ result.number.d >= 0

\* C6: an OperatorEvaluator returns the zero sentinel when the normalized
\* units of its operands are both non-null and differ, whatever the operator,
\* and when the operator is none of + - * /, whatever the operands.
C6_ZeroSentinel ==
    (Built("OperatorEvaluator") /\ calls >= 1) =>
        /\ UnitsConflict => result = ZERO
        /\ evaluator.operator.value \notin Operators => result = ZERO

\* (2, cm) * (1, deg) has been evaluated, to the zero sentinel
C6_Witness ==
    /\ Built("OperatorEvaluator") /\ calls >= 1
    /\ evaluator.operator.value = "*"
    /\ evaluator.left = numberNode(Num(2), "cm")
    /\ evaluator.right = numberNode(Num(1), "deg")
    /\ result = ZERO

\* C7: for an operator of + - * / and operands whose normalized units do not
\* conflict, the result is the operator applied to the two numbers in their
\* base units (deg to rad, cm and mm to m), with the left operand's normalized
\* unit if it has one, else the right operand's, else none.
C7_Arithmetic ==
    (Built("OperatorEvaluator") /\ calls >= 1
        /\ evaluator.operator.value \in Operators
        /\ LeftNode.type = "number" /\ RightNode.type = "number"
        /\ ~UnitsConflict)
        => result = numberNode(
                        Apply(evaluator.operator.value, LeftNode.number,
                              RightNode.number),
                        IF LeftNode.unit # "null" THEN LeftNode.unit
                        ELSE RightNode.unit)

\* (1, m) + (1000, mm) has been evaluated, to (2, m)
C7_Witness ==
    /\ Built("OperatorEvaluator") /\ calls >= 1
    /\ evaluator.operator.value = "+"
    /\ evaluator.left = numberNode(Num(1), "m")
    /\ evaluator.right = numberNode(Num(1000), "mm")
    /\ result = numberNode(Num(2), "m")

\* C8: an EnvEvaluator is never constant, and one whose env() call has no
\* argument, an empty first argument, a first term that is no identifier or
\* an identifier other than window-scroll-y evaluates to (0, null) on every
\* call, in every environment.
C8_EnvZero ==
    Built("EnvEvaluator") =>
        /\ ~isConstant(evaluator)
        /\ (~NamesWindowScrollY(input.arg) /\ calls >= 1) => result = ZERO

\* env(window-scroll-x) evaluated twice, in an environment whose scroll
\* fraction is not 0
C8_Witness ==
    /\ Built("EnvEvaluator") /\ calls >= 2
    /\ input.arg = envCall(<<identNode("window-scroll-x")>>)
    /\ windowScrollY(env) # Num(0)
    /\ result = ZERO

\* C9: env(window-scroll-y) evaluates to
\* (scrollPosition / (scrollExtent - viewportHeight), null), and to (0, null)
\* whenever that divisor is 0, for every scroll position, zero or not.
C9_ScrollFraction == [][C9_Step]_vars

\* C10: a SphericalEvaluator over the (at most three) number terms of the
\* first expression evaluates to [azimuth in radians, inclination in radians,
\* radius in meters]; a missing azimuth or inclination counts as (0, null), a
\* missing radius as 'auto', and an identifier radius gives its name.
C10_Spherical ==
    (Built("SphericalEvaluator") /\ calls >= 1) =>
        LET terms == SphericalTermsOf(input.arg.list)
        IN (/\ Len(terms) <= 3
            /\ \A i \in 1..Len(terms) :
                  terms[i].type = "number" \/ (i = 3 /\ terms[i].type = "ident"))
           => result = [type |-> "spherical", theta |-> AngleOf(terms, 1),
                        phi |-> AngleOf(terms, 2), radius |-> RadiusOf(terms)]

\* (180, deg) alone has been evaluated, to [pi, 0, 'auto']
C10_Witness ==
    /\ Built("SphericalEvaluator") /\ calls >= 1
    /\ input.arg.list = <<expressionNode(<<numberNode(Num(180), "deg")>>)>>
    /\ result = [type |-> "spherical", theta |-> PI, phi |-> Num(0),
                 radius |-> [string |-> "auto"]]

\* C11: when the third term given to SphericalEvaluator is an identifier,
\* the third element of every evaluate() result is that identifier's string
\* value, whatever the azimuth and inclination terms are (numbers, calc() or
\* env() calls) and at every call; the radius is not unit-normalized.
C11_IdentRadius ==
    (Built("SphericalEvaluator") /\ calls >= 1) =>
        LET terms == SphericalTermsOf(input.arg.list)
        IN (Len(terms) >= 3 /\ terms[3].type = "ident")
           => /\ result.type = "spherical"
              /\ result.radius = [string |-> terms[3].value]
              /\ evaluator.radius = terms[3]

\* env(window-scroll-y) calc(1m + 1) auto has been evaluated twice
C11_Witness ==
    /\ Built("SphericalEvaluator") /\ calls >= 2
    /\ SphericalTermsOf(input.arg.list)
          = <<windowScrollYCall,
              calc(<<numberNode(Num(1), "m"), operatorNode("+"), one>>), AUTO>>
    /\ result.radius = [string |-> "auto"]

\* the evaluator built holds no inner tree, is constant, and has returned
\* (0, null) if it has been evaluated
NoInnerTree ==
    /\ pc = "built"
    /\ evaluator.type = "CalcEvaluator"
    /\ evaluator.evaluator = NULL
    /\ isConstant(evaluator)
    /\ calls >= 1 => result = ZERO

RECURSIVE Structure(_)
Structure(x) ==
    IF x.type = "EnvEvaluator" THEN [type |-> x.type, identNode |-> x.identNode]
    ELSE IF x.type = "CalcEvaluator"
         THEN [type |-> x.type, evaluator |-> Structure(x.evaluator)]
    ELSE IF x.type = "OperatorEvaluator"
         THEN [type |-> x.type, operator |-> x.operator,
               left |-> Structure(x.left), right |-> Structure(x.right)]
    ELSE IF x.type = "SphericalEvaluator"
         THEN [type |-> x.type, theta |-> Structure(x.theta),
               phi |-> Structure(x.phi), radius |-> Structure(x.radius)]
    ELSE x

\* a step after which the argument of the construction is as it was given,
\* and which, if it is an evaluate() call, leaves the structure and the
\* constancy of every node of the tree as they were
C13_Step ==
    /\ pc' \in {"built", "threw"} => input'.after = input'.arg
    /\ (pc = "built" /\ calls' = calls + 1) =>
           /\ Structure(evaluator') = Structure(evaluator)
           /\ Paths(evaluator') = Paths(evaluator)
           /\ \A p \in Paths(evaluator) :
                  isConstant(At(evaluator', p)) = isConstant(At(evaluator, p))
           /\ input' = input /\ env' = env /\ pc' = pc

\* C13: every evaluate() call changes nothing except cached last-value
\* fields of the evaluators of its own tree: the operator, the operand
\* references, the inner tree and the stored identifier of every node are
\* unchanged and isConstant of every node has the same value before and
\* after; and the term list passed to the CalcEvaluator constructor is left
\* unmodified by construction.
C13_OnlyCacheChanges == [][C13_Step]_vars

\* a calc() of three terms or more has been constructed and evaluated, the
\* cached value of an evaluator below the root is set, and the term list
\* given to the constructor still holds its terms
C13_Witness ==
    /\ Built("CalcEvaluator") /\ calls >= 1
    /\ Len(input.arg.arguments) = 1 /\ Len(InputTerms) >= 3
    /\ input.after = input.arg
    /\ \E p \in Paths(evaluator) :
          p # <<>> /\ At(evaluator, p).lastValue # NULL

\* the value of an evaluatable computed from its structure alone, against
\* the environment e, no cached value consulted
RECURSIVE FreshValue(_, _)
FreshValue(x, e) ==
    IF x.type = "EnvEvaluator"
    THEN IF x.identNode = identNode("window-scroll-y")
         THEN numberNode(windowScrollY(e), "null")
         ELSE ZERO
    ELSE IF x.type = "CalcEvaluator"
    THEN IF x.evaluator = NULL THEN ZERO ELSE FreshValue(x.evaluator, e)
    ELSE IF x.type = "OperatorEvaluator"
    THEN OperatorResult(x.operator, normalizeUnit(FreshValue(x.left, e)),
                        normalizeUnit(FreshValue(x.right, e)))
    ELSE IF x.type = "SphericalEvaluator"
    THEN SphericalResult(FreshValue(x.theta, e), FreshValue(x.phi, e),
                         FreshValue(x.radius, e))
    ELSE x

\* an evaluate() step returns the cache-free value of the tree against the
\* environment of the call, and runs the evaluation step of a root that is
\* not constant
C14_Step ==
    (pc = "built" /\ calls' = calls + 1) =>
        /\ result' = FreshValue(evaluator, env)
        /\ (IsEvaluator(evaluator) /\ ~isConstant(evaluator))
              => evaluator'.evals = evaluator.evals + 1

\* C14: for every tree built from numbers, operators, calc() and env() calls
\* and every interleaving of environment changes with evaluate() calls, each
\* evaluate() returns the value a cache-free evaluation of the same tree
\* returns against the environment at the time of the call: cached values of
\* constant sub-evaluators are never stale, and an evaluator that is not
\* constant recomputes on every call.
C14_CacheTransparent == [][C14_Step]_vars

\* calc(calc(calc(1) * env(window-scroll-y))) evaluated twice, the last time
\* to a value other than 0 in a scrolled page, its calc(1) evaluated once
C14_Witness ==
    /\ Built("CalcEvaluator") /\ calls >= 2
    /\ input.arg
          = calc(<<calc(<<calc(<<one>>), operatorNode("*"), windowScrollYCall>>)>>)
    /\ result # ZERO
    /\ result = FreshValue(evaluator, env)
    /\ \E p \in Paths(evaluator) :
          /\ isConstant(At(evaluator, p))
          /\ At(evaluator, p).evals = 1
          /\ At(evaluator, p).lastValue = one

====
